---- MODULE Spec2Model ----
(***************************************************************************)
(* State machine of the StudyMate session controller (the App component): *)
(* its React state, its event handlers and the continuations of the        *)
(* asynchronous calls the handlers issue (answer, quiz, image encoding,    *)
(* PDF extraction).  State updates issued by one handler invocation or one *)
(* continuation are applied together (React batches them into one render). *)
(*                                                                         *)
(* A handler is a step that may be taken in any state in which the element *)
(* it is bound to is rendered by App: App itself guards none of them by    *)
(* isLoading, it only hands `disabled` to child components.  A call in     *)
(* flight is never cancelled; its continuation runs when it settles,       *)
(* whatever happened to the session in between.                            *)
(*                                                                         *)
(* The usePdfProcessor hook is not part of the sources at hand; it is      *)
(* modelled from its description.  The profile and the visibility flags of *)
(* the annotator and of the profile editor take no part in the session     *)
(* state and are left out.                                                 *)
(***************************************************************************)
EXTENDS Integers, Sequences, FiniteSets, Bags, TLC

(* ---------------------------- bounds ---------------------------------- *)
\* turns the conversation may reach: an Ask is issued only while the turns
\* present, those still to come from calls in flight and its own two fit
MaxTurns == 2
\* asynchronous calls (of any kind) that may be in flight together
MaxInFlight == 2

(* ------------------------ optional values ----------------------------- *)
\* `T | null`: null is the empty sequence, a present value a one-element one.
Null == <<>>
Some(x) == <<x>>

(* --------------------------- strings ---------------------------------- *)
\* A question is a sequence of characters; " " is whitespace.
IsWhitespace(c) == c = " "

RECURSIVE TrimStart(_)
TrimStart(s) ==
    IF s # <<>> /\ IsWhitespace(Head(s)) THEN TrimStart(Tail(s)) ELSE s

RECURSIVE TrimEnd(_)
TrimEnd(s) ==
    IF s # <<>> /\ IsWhitespace(s[Len(s)])
    THEN TrimEnd(SubSeq(s, 1, Len(s) - 1))
    ELSE s

\* String.prototype.trim
Trim(s) == TrimEnd(TrimStart(s))

\* JavaScript truthiness of a string / of a nullable object
Truthy(s) == s # <<>>

Questions == { <<>>, <<" ">>, <<" ", "a", " ">> }

Answers == { "answer" }

\* Error.message of a rejected service call; "" is an Error without message.
FailureMessages == { "", "quota exceeded" }

AnswerFallback == "An unknown error occurred while generating the answer."
QuizFallback == "An unknown error occurred while generating the quiz."
InvalidImageMessage == "Please select a valid image file."
ImageLoadMessage == "Failed to load the image. Please try again."

\* error.message || fallback
MessageOr(message, fallback) == IF message # "" THEN message ELSE fallback

(* ---------------------------- files ----------------------------------- *)
\* A MIME type is a sequence of tokens, "image/png" = <<"image", "/", "png">>.
ImageFiles ==
    { [name |-> "fig.png", type |-> <<"image", "/", "png">>, bytes |-> "Man"],
      [name |-> "notes.pdf", type |-> <<"application", "/", "pdf">>, bytes |-> "%PDF"],
      [name |-> "blob", type |-> <<>>, bytes |-> ""] }

\* a check that looks for the "/" but not for the image category
StartsWithAnyCategory(type) == Len(type) >= 2 /\ type[2] = "/"

\* file.type.startsWith('image/')
StartsWithImage(type) ==
    Len(type) >= 2 /\ type[1] = "image" /\ type[2] = "/"

\* base64 text of the file's bytes, as FileReader encodes it
Base64(bytes) ==
    CASE bytes = "Man" -> <<"TWFu">>
      [] bytes = "%PDF" -> <<"JVBERg==">>
      [] OTHER -> <<>>

\* FileReader.readAsDataURL: "data:<type>;base64,<payload>"
ReadAsDataURL(file) ==
    <<"data:">> \o file.type \o <<";base64", ",">> \o Base64(file.bytes)

RECURSIVE Split(_, _)
\* String.prototype.split on a one-token separator
Split(s, sep) ==
    IF \E i \in 1..Len(s) : s[i] = sep
    THEN LET i == CHOOSE k \in 1..Len(s) :
                    s[k] = sep /\ \A j \in 1..(k - 1) : s[j] # sep
         IN <<SubSeq(s, 1, i - 1)>> \o Split(SubSeq(s, i + 1, Len(s)), sep)
    ELSE <<s>>

\* value fileToBase64 resolves with: result.split(',')[1]
fileToBase64(file) == Split(ReadAsDataURL(file), ",")[2]

ImagePayload(file) ==
    [data |-> fileToBase64(file), mimeType |-> file.type, name |-> file.name]

\* payload handed over by the annotator on completion
AnnotatedPayloads ==
    { [data |-> <<"QW5u">>, mimeType |-> <<"image", "/", "png">>,
       name |-> "annotated.png"] }

(* -------------------------- documents --------------------------------- *)
\* FileList | null handed to handleFileChange; a FileList is a sequence of
\* file names
FileLists == { Null, Some(<<>>), Some(<<"notes.pdf">>) }

ExtractedText(name) == <<"text of", name>>

PdfDocument(name) == [file |-> name, text |-> ExtractedText(name)]

ExtractionFailure == "Failed to process PDF."

\* The processor maps document identity (the file name) to extracted text:
\* a document extracted again takes the place of the one of the same name.
AddDocument(docs, doc) ==
    IF \E i \in 1..Len(docs) : docs[i].file = doc.file
    THEN [i \in 1..Len(docs) |-> IF docs[i].file = doc.file THEN doc ELSE docs[i]]
    ELSE Append(docs, doc)

Separator == "\n\n---\n\n"

RECURSIVE JoinTexts(_)
\* processedDocs.map(doc => doc.text).join('\n\n---\n\n')
JoinTexts(docs) ==
    IF docs = <<>> THEN <<>>
    ELSE IF Len(docs) = 1 THEN <<Head(docs).text>>
    ELSE <<Head(docs).text, Separator>> \o JoinTexts(Tail(docs))

QuizLists ==
    { <<[question |-> "q1", options |-> <<"x", "y">>, answer |-> "x"]>> }

(* ------------------------- conversation ------------------------------- *)
UserTurn(question) == [role |-> "user", content |-> question]
ModelTurn(answer) == [role |-> "model", content |-> answer]

\* an update that puts the new turn first: prev => [turn, ...prev]
PrependTurn(prev, turn) == <<turn>> \o prev

\* prev => [...prev, turn]
AppendTurn(prev, turn) == Append(prev, turn)

\* Calls in flight form a bag: promises settle in any order, and two calls
\* with the same arguments are indistinguishable.
Issue(pending, call) == pending (+) SetToBag({call})
Settle(pending, call) == pending (-) SetToBag({call})

(* ----------------------------- state ---------------------------------- *)
VARIABLES
    processedDocs,     \* usePdfProcessor: documents extracted so far
    isPdfProcessing,   \* usePdfProcessor: isProcessing
    pdfError,          \* usePdfProcessor: error (string | null)
    conversation,
    isGenerating,
    apiError,
    image,             \* ImagePayload | null
    quiz,              \* QuizQuestion[] | null
    isGeneratingQuiz,
    isQuizModalOpen,
    pendingAnswers,    \* getAnswer calls issued and not yet settled
    pendingQuizzes,    \* generateQuiz calls issued and not yet settled
    pendingImages,     \* fileToBase64 calls issued and not yet settled
    pendingPdfs,       \* processPdfs batches still extracting
    earlyReturn        \* history: the handler that returned early, without any
                       \* state update, in the latest step; "none" otherwise

appVars ==
    <<processedDocs, isPdfProcessing, pdfError, conversation, isGenerating,
      apiError, image, quiz, isGeneratingQuiz, isQuizModalOpen>>

pendingVars == <<pendingAnswers, pendingQuizzes, pendingImages, pendingPdfs>>

vars == <<appVars, pendingVars, earlyReturn>>

\* calls issued and not yet settled
InFlight ==
    BagCardinality(pendingAnswers) + BagCardinality(pendingQuizzes)
        + BagCardinality(pendingImages) + BagCardinality(pendingPdfs)

\* const isLoading = isPdfProcessing || isGenerating || isGeneratingQuiz
isLoading == isPdfProcessing \/ isGenerating \/ isGeneratingQuiz

\* const error = pdfError || apiError
error == IF pdfError # Null /\ pdfError[1] # "" THEN pdfError[1] ELSE apiError

Init ==
    /\ processedDocs = <<>>
    /\ isPdfProcessing = FALSE
    /\ pdfError = Null
    /\ conversation = <<>>
    /\ isGenerating = FALSE
    /\ apiError = ""
    /\ image = Null
    /\ quiz = Null
    /\ isGeneratingQuiz = FALSE
    /\ isQuizModalOpen = FALSE
    /\ pendingAnswers = EmptyBag
    /\ pendingQuizzes = EmptyBag
    /\ pendingImages = EmptyBag
    /\ pendingPdfs = EmptyBag
    /\ earlyReturn = "none"

(* ------------------------ Clear Session ------------------------------- *)
\* a clear that forgets setImage(null)
ClearSessionKeepsImage ==
    /\ processedDocs' = <<>>
    /\ conversation' = <<>>
    /\ apiError' = ""
    /\ pdfError' = Null
    /\ image' = image
    /\ quiz' = Null
    /\ isQuizModalOpen' = FALSE

\* the state updates of handleClearSession
ClearSessionUpdates ==
    /\ processedDocs' = <<>>
    /\ conversation' = <<>>
    /\ apiError' = ""
    /\ pdfError' = Null
    /\ image' = Null
    /\ quiz' = Null
    /\ isQuizModalOpen' = FALSE

\* a clear that flips the quiz view instead of closing it
handleClearSessionTogglesQuizView ==
    /\ processedDocs' = <<>>
    /\ conversation' = <<>>
    /\ apiError' = ""
    /\ pdfError' = Null
    /\ image' = Null
    /\ quiz' = Null
    /\ isQuizModalOpen' = ~isQuizModalOpen
    /\ UNCHANGED <<isPdfProcessing, isGenerating, isGeneratingQuiz>>
    /\ UNCHANGED pendingVars
    /\ earlyReturn' = "none"

\* handleClearSession: the updates above, nothing else
handleClearSession ==
    /\ ClearSessionUpdates
    /\ UNCHANGED <<isPdfProcessing, isGenerating, isGeneratingQuiz>>
    /\ UNCHANGED pendingVars
    /\ earlyReturn' = "none"

(* ---------------------------- Upload ---------------------------------- *)
\* the processing flag the processor exposes: busy while a batch is extracting
Processing(batches) == batches # EmptyBag

\* processPdfs(files) up to its first await: the batch starts extracting
processPdfsStart(files) ==
    /\ pendingPdfs' = Issue(pendingPdfs, [remaining |-> files])
    /\ isPdfProcessing' = Processing(Issue(pendingPdfs, [remaining |-> files]))

\* if (files && files.length > 0)
FilesAccepted(files) == files # Null /\ Len(files[1]) > 0

\* a handler that starts processing without handleClearSession()
handleFileChangeNoClear(files) ==
    IF FilesAccepted(files)
    THEN /\ InFlight < MaxInFlight
         /\ UNCHANGED <<processedDocs, conversation, apiError, pdfError, image, quiz,
                        isQuizModalOpen>>
         /\ processPdfsStart(files[1])
         /\ UNCHANGED <<isGenerating, isGeneratingQuiz>>
         /\ UNCHANGED <<pendingAnswers, pendingQuizzes, pendingImages>>
         /\ earlyReturn' = "none"
    ELSE /\ UNCHANGED <<appVars, pendingVars>>
         /\ earlyReturn' = "handleFileChange"

\* handleFileChange up to its await
handleFileChange(files) ==
    IF FilesAccepted(files)
    THEN /\ InFlight < MaxInFlight
         /\ ClearSessionUpdates
         /\ processPdfsStart(files[1])
         /\ UNCHANGED <<isGenerating, isGeneratingQuiz>>
         /\ UNCHANGED <<pendingAnswers, pendingQuizzes, pendingImages>>
         /\ earlyReturn' = "none"
    ELSE /\ UNCHANGED <<appVars, pendingVars>>
         /\ earlyReturn' = "handleFileChange"

\* extraction of the next file of a batch succeeds: the document is added
extractResolve(call) ==
    /\ BagIn(call, pendingPdfs)
    /\ LET rest == Tail(call.remaining)
           left == IF rest = <<>>
                   THEN Settle(pendingPdfs, call)
                   ELSE Issue(Settle(pendingPdfs, call), [remaining |-> rest])
       IN /\ processedDocs' = AddDocument(processedDocs, PdfDocument(Head(call.remaining)))
          /\ pendingPdfs' = left
          /\ isPdfProcessing' = Processing(left)
    /\ earlyReturn' = "none"
    /\ UNCHANGED <<pdfError, conversation, isGenerating, apiError, image, quiz,
                   isGeneratingQuiz, isQuizModalOpen>>
    /\ UNCHANGED <<pendingAnswers, pendingQuizzes, pendingImages>>

\* extraction of the next file of a batch fails: the error is recorded, the
\* rest of the batch is dropped, documents already added stay
extractReject(call) ==
    /\ BagIn(call, pendingPdfs)
    /\ pdfError' = Some(ExtractionFailure)
    /\ pendingPdfs' = Settle(pendingPdfs, call)
    /\ isPdfProcessing' = Processing(Settle(pendingPdfs, call))
    /\ earlyReturn' = "none"
    /\ UNCHANGED <<processedDocs, conversation, isGenerating, apiError, image, quiz,
                   isGeneratingQuiz, isQuizModalOpen>>
    /\ UNCHANGED <<pendingAnswers, pendingQuizzes, pendingImages>>

(* ------------------------------ Ask ----------------------------------- *)
\* a guard that tests the question without trimming it
QuestionRejectedUntrimmed(question, img) == ~Truthy(question) /\ ~Truthy(img)

\* if (!question.trim() && !image) return;
QuestionRejected(question, img) == ~Truthy(Trim(question)) /\ ~Truthy(img)

\* the getAnswer call issued by handleQuestionSubmit; lenAtIssue records the
\* conversation length the handler found
AnswerCall(question) ==
    [question |-> question, lenAtIssue |-> Len(conversation)]

handleQuestionSubmit(question) ==
    IF QuestionRejected(question, image)
    THEN /\ UNCHANGED <<appVars, pendingVars>>
         /\ earlyReturn' = "handleQuestionSubmit"
    ELSE /\ InFlight < MaxInFlight
         /\ Len(conversation) + BagCardinality(pendingAnswers) + 2 <= MaxTurns
         /\ conversation' = AppendTurn(conversation, UserTurn(question))
         /\ isGenerating' = TRUE
         /\ apiError' = ""
         /\ pendingAnswers' = Issue(pendingAnswers, AnswerCall(question))
         /\ earlyReturn' = "none"
         /\ UNCHANGED <<processedDocs, isPdfProcessing, pdfError, image, quiz,
                        isGeneratingQuiz, isQuizModalOpen>>
         /\ UNCHANGED <<pendingQuizzes, pendingImages, pendingPdfs>>

\* a finally block that also drops the attached image: setImage(null)
getAnswerResolveClearsImage(call, generatedAnswer) ==
    /\ BagIn(call, pendingAnswers)
    /\ conversation' = AppendTurn(conversation, ModelTurn(generatedAnswer))
    /\ isGenerating' = FALSE
    /\ image' = Null
    /\ pendingAnswers' = Settle(pendingAnswers, call)
    /\ earlyReturn' = "none"
    /\ UNCHANGED <<processedDocs, isPdfProcessing, pdfError, apiError, quiz,
                   isGeneratingQuiz, isQuizModalOpen>>
    /\ UNCHANGED <<pendingQuizzes, pendingImages, pendingPdfs>>

\* getAnswer resolves: try block continues, then finally
getAnswerResolve(call, generatedAnswer) ==
    /\ BagIn(call, pendingAnswers)
    /\ conversation' = AppendTurn(conversation, ModelTurn(generatedAnswer))
    /\ isGenerating' = FALSE
    /\ pendingAnswers' = Settle(pendingAnswers, call)
    /\ earlyReturn' = "none"
    /\ UNCHANGED <<processedDocs, isPdfProcessing, pdfError, apiError, image, quiz,
                   isGeneratingQuiz, isQuizModalOpen>>
    /\ UNCHANGED <<pendingQuizzes, pendingImages, pendingPdfs>>

\* a catch block that is not followed by the finally block
getAnswerRejectNoFinally(call, message) ==
    /\ BagIn(call, pendingAnswers)
    /\ apiError' = MessageOr(message, AnswerFallback)
    /\ pendingAnswers' = Settle(pendingAnswers, call)
    /\ earlyReturn' = "none"
    /\ UNCHANGED <<processedDocs, isPdfProcessing, pdfError, conversation, image, quiz,
                   isGenerating, isGeneratingQuiz, isQuizModalOpen>>
    /\ UNCHANGED <<pendingQuizzes, pendingImages, pendingPdfs>>

\* getAnswer rejects: catch block, then finally
getAnswerReject(call, message) ==
    /\ BagIn(call, pendingAnswers)
    /\ apiError' = MessageOr(message, AnswerFallback)
    /\ isGenerating' = FALSE
    /\ pendingAnswers' = Settle(pendingAnswers, call)
    /\ earlyReturn' = "none"
    /\ UNCHANGED <<processedDocs, isPdfProcessing, pdfError, conversation, image, quiz,
                   isGeneratingQuiz, isQuizModalOpen>>
    /\ UNCHANGED <<pendingQuizzes, pendingImages, pendingPdfs>>

(* ----------------------------- Image ---------------------------------- *)
\* a handler without setApiError('') before the encoding
handleImageSelectKeepsError(file) ==
    IF ~StartsWithImage(file.type)
    THEN /\ apiError' = InvalidImageMessage
         /\ earlyReturn' = "none"
         /\ UNCHANGED <<processedDocs, isPdfProcessing, pdfError, conversation,
                        isGenerating, image, quiz, isGeneratingQuiz, isQuizModalOpen>>
         /\ UNCHANGED pendingVars
    ELSE /\ InFlight < MaxInFlight
         /\ apiError' = apiError
         /\ pendingImages' = Issue(pendingImages, file)
         /\ earlyReturn' = "none"
         /\ UNCHANGED <<processedDocs, isPdfProcessing, pdfError, conversation,
                        isGenerating, image, quiz, isGeneratingQuiz, isQuizModalOpen>>
         /\ UNCHANGED <<pendingAnswers, pendingQuizzes, pendingPdfs>>

\* handleImageSelect up to the await of fileToBase64
handleImageSelect(file) ==
    IF ~StartsWithImage(file.type)
    THEN /\ apiError' = InvalidImageMessage
         /\ earlyReturn' = "none"
         /\ UNCHANGED <<processedDocs, isPdfProcessing, pdfError, conversation,
                        isGenerating, image, quiz, isGeneratingQuiz, isQuizModalOpen>>
         /\ UNCHANGED pendingVars
    ELSE /\ InFlight < MaxInFlight
         /\ apiError' = ""
         /\ pendingImages' = Issue(pendingImages, file)
         /\ earlyReturn' = "none"
         /\ UNCHANGED <<processedDocs, isPdfProcessing, pdfError, conversation,
                        isGenerating, image, quiz, isGeneratingQuiz, isQuizModalOpen>>
         /\ UNCHANGED <<pendingAnswers, pendingQuizzes, pendingPdfs>>

\* fileToBase64 resolves (reader.onload)
fileToBase64Resolve(call) ==
    /\ BagIn(call, pendingImages)
    /\ image' = Some(ImagePayload(call))
    /\ pendingImages' = Settle(pendingImages, call)
    /\ earlyReturn' = "none"
    /\ UNCHANGED <<processedDocs, isPdfProcessing, pdfError, conversation,
                   isGenerating, apiError, quiz, isGeneratingQuiz, isQuizModalOpen>>
    /\ UNCHANGED <<pendingAnswers, pendingQuizzes, pendingPdfs>>

\* fileToBase64 rejects (reader.onerror)
fileToBase64Reject(call) ==
    /\ BagIn(call, pendingImages)
    /\ apiError' = ImageLoadMessage
    /\ pendingImages' = Settle(pendingImages, call)
    /\ earlyReturn' = "none"
    /\ UNCHANGED <<processedDocs, isPdfProcessing, pdfError, conversation,
                   isGenerating, image, quiz, isGeneratingQuiz, isQuizModalOpen>>
    /\ UNCHANGED <<pendingAnswers, pendingQuizzes, pendingPdfs>>

\* onClearImage={() => setImage(null)}
onClearImage ==
    /\ image' = Null
    /\ earlyReturn' = "none"
    /\ UNCHANGED <<processedDocs, isPdfProcessing, pdfError, conversation,
                   isGenerating, apiError, quiz, isGeneratingQuiz, isQuizModalOpen>>
    /\ UNCHANGED pendingVars

\* the annotator (and with it onComplete) is mounted only over an attached
\* image: {isAnnotatorOpen && image && <ImageAnnotator .../>}
AnnotatorMounted == Truthy(image)

handleAnnotateComplete(newImagePayload) ==
    /\ AnnotatorMounted
    /\ image' = Some(newImagePayload)
    /\ earlyReturn' = "none"
    /\ UNCHANGED <<processedDocs, isPdfProcessing, pdfError, conversation,
                   isGenerating, apiError, quiz, isGeneratingQuiz, isQuizModalOpen>>
    /\ UNCHANGED pendingVars

(* ------------------------------ Quiz ---------------------------------- *)
\* a handler without the early return
QuizNeverRejected(docs) == FALSE

\* if (processedDocs.length === 0) return;
QuizRejected(docs) == Len(docs) = 0

\* a handler without setQuiz(null)
handleGenerateQuizKeepsQuiz ==
    IF QuizRejected(processedDocs)
    THEN /\ UNCHANGED <<appVars, pendingVars>>
         /\ earlyReturn' = "handleGenerateQuiz"
    ELSE /\ InFlight < MaxInFlight
         /\ isGeneratingQuiz' = TRUE
         /\ apiError' = ""
         /\ quiz' = quiz
         /\ pendingQuizzes' = Issue(pendingQuizzes, [combinedText |-> JoinTexts(processedDocs)])
         /\ earlyReturn' = "none"
         /\ UNCHANGED <<processedDocs, isPdfProcessing, pdfError, conversation,
                        isGenerating, image, isQuizModalOpen>>
         /\ UNCHANGED <<pendingAnswers, pendingImages, pendingPdfs>>

\* handleGenerateQuiz up to its await
handleGenerateQuiz ==
    IF QuizRejected(processedDocs)
    THEN /\ UNCHANGED <<appVars, pendingVars>>
         /\ earlyReturn' = "handleGenerateQuiz"
    ELSE /\ InFlight < MaxInFlight
         /\ isGeneratingQuiz' = TRUE
         /\ apiError' = ""
         /\ quiz' = Null
         /\ pendingQuizzes' = Issue(pendingQuizzes, [combinedText |-> JoinTexts(processedDocs)])
         /\ earlyReturn' = "none"
         /\ UNCHANGED <<processedDocs, isPdfProcessing, pdfError, conversation,
                        isGenerating, image, isQuizModalOpen>>
         /\ UNCHANGED <<pendingAnswers, pendingImages, pendingPdfs>>

\* generateQuiz resolves: try block continues, then finally
generateQuizResolve(call, questions) ==
    /\ BagIn(call, pendingQuizzes)
    /\ quiz' = Some(questions)
    /\ isGeneratingQuiz' = FALSE
    /\ pendingQuizzes' = Settle(pendingQuizzes, call)
    /\ earlyReturn' = "none"
    /\ UNCHANGED <<processedDocs, isPdfProcessing, pdfError, conversation,
                   isGenerating, apiError, image, isQuizModalOpen>>
    /\ UNCHANGED <<pendingAnswers, pendingImages, pendingPdfs>>

\* generateQuiz rejects: catch block, then finally
generateQuizReject(call, message) ==
    /\ BagIn(call, pendingQuizzes)
    /\ apiError' = MessageOr(message, QuizFallback)
    /\ isGeneratingQuiz' = FALSE
    /\ pendingQuizzes' = Settle(pendingQuizzes, call)
    /\ earlyReturn' = "none"
    /\ UNCHANGED <<processedDocs, isPdfProcessing, pdfError, conversation,
                   isGenerating, image, quiz, isQuizModalOpen>>
    /\ UNCHANGED <<pendingAnswers, pendingImages, pendingPdfs>>

\* the "View Practice Quiz" button is rendered while quiz && !isGeneratingQuiz
onViewQuiz ==
    /\ Truthy(quiz) /\ ~isGeneratingQuiz
    /\ isQuizModalOpen' = TRUE
    /\ earlyReturn' = "none"
    /\ UNCHANGED <<processedDocs, isPdfProcessing, pdfError, conversation,
                   isGenerating, apiError, image, quiz, isGeneratingQuiz>>
    /\ UNCHANGED pendingVars

\* onClose={() => setIsQuizModalOpen(false)}, mounted while isQuizModalOpen
onQuizClose ==
    /\ isQuizModalOpen
    /\ isQuizModalOpen' = FALSE
    /\ earlyReturn' = "none"
    /\ UNCHANGED <<processedDocs, isPdfProcessing, pdfError, conversation,
                   isGenerating, apiError, image, quiz, isGeneratingQuiz>>
    /\ UNCHANGED pendingVars

(* ------------------------- specification ------------------------------ *)
Next ==
    \/ handleClearSession
    \/ \E files \in FileLists : handleFileChange(files)
    \/ \E call \in BagToSet(pendingPdfs) : extractResolve(call)
    \/ \E call \in BagToSet(pendingPdfs) : extractReject(call)
    \/ \E question \in Questions : handleQuestionSubmit(question)
    \/ \E call \in BagToSet(pendingAnswers), answer \in Answers : getAnswerResolve(call, answer)
    \/ \E call \in BagToSet(pendingAnswers), message \in FailureMessages : getAnswerReject(call, message)
    \/ \E file \in ImageFiles : handleImageSelect(file)
    \/ \E call \in BagToSet(pendingImages) : fileToBase64Resolve(call)
    \/ \E call \in BagToSet(pendingImages) : fileToBase64Reject(call)
    \/ onClearImage
    \/ \E payload \in AnnotatedPayloads : handleAnnotateComplete(payload)
    \/ handleGenerateQuiz
    \/ \E call \in BagToSet(pendingQuizzes), questions \in QuizLists : generateQuizResolve(call, questions)
    \/ \E call \in BagToSet(pendingQuizzes), message \in FailureMessages : generateQuizReject(call, message)
    \/ onViewQuiz
    \/ onQuizClose

Spec == Init /\ [][Next]_vars

(* ============================= claims ================================= *)
\* the state Clear Session is to leave behind
SessionCleared ==
    /\ processedDocs = <<>>
    /\ conversation = <<>>
    /\ image = Null
    /\ quiz = Null
    /\ pdfError = Null
    /\ apiError = ""

\* C1: every Clear Session step ends in an empty document list, an empty
\* conversation, a null image, a null quiz and two empty error channels,
\* whatever the state before it and whatever calls are in flight.
C1_ClearResetsSession == [][handleClearSession => SessionCleared']_vars

\* C1 witness: the session is cleared while an answer call issued before the
\* clear is still in flight (no upload is running, so the handler cleared it).
C1_ClearedWhileAnswerInFlight ==
    /\ SessionCleared
    /\ pendingAnswers # EmptyBag
    /\ pendingPdfs = EmptyBag

\* C2 (as stated): when an answer call resolves, the conversation is two
\* turns longer than it was when that Ask was issued, and its last two turns
\* are the Ask's user turn followed by the model turn with the answer.
C2_SuccessAddsUserThenModel ==
    [][\A call \in BagToSet(pendingAnswers), answer \in Answers :
          getAnswerResolve(call, answer) =>
             /\ Len(conversation') = call.lenAtIssue + 2
             /\ conversation'[Len(conversation') - 1] = UserTurn(call.question)
             /\ conversation'[Len(conversation')] = ModelTurn(answer)]_vars

\* C3 (as stated): when an answer call rejects, the conversation is one turn
\* longer than it was when that Ask was issued, the AI error channel is
\* non-empty and the busy signal is false.
C3_FailureAddsUserOnly ==
    [][\A call \in BagToSet(pendingAnswers), message \in FailureMessages :
          getAnswerReject(call, message) =>
             /\ Len(conversation') = call.lenAtIssue + 1
             /\ apiError' # ""
             /\ ~isLoading']_vars

\* C4 (as stated): the busy signal is true in every state in which a document
\* batch, an answer call or a quiz call has been issued and has not completed.
C4_BusyWhileCallInFlight ==
    (pendingPdfs # EmptyBag \/ pendingAnswers # EmptyBag \/ pendingQuizzes # EmptyBag)
        => isLoading

\* a step that runs handleClearSession: the handler itself, or an upload of
\* a non-empty file list, which calls it
ClearSessionStep ==
    \/ handleClearSession
    \/ \E files \in FileLists : FilesAccepted(files) /\ handleFileChange(files)

\* C5: every step leaves the conversation as it is, or adds exactly one turn
\* at its end and keeps all earlier turns, or is a Clear Session step that
\* empties it.
C5_ConversationAppendOnly ==
    [][\/ conversation' = conversation
       \/ /\ Len(conversation') = Len(conversation) + 1
          /\ SubSeq(conversation', 1, Len(conversation)) = conversation
          /\ conversation'[Len(conversation')].role \in {"user", "model"}
       \/ /\ ClearSessionStep
          /\ conversation' = <<>>]_vars

\* C5 witness: a conversation that was extended twice, a user turn and then
\* a model turn.
C5_TwoTurnsAppended ==
    /\ Len(conversation) = 2
    /\ conversation[1].role = "user"
    /\ conversation[2].role = "model"
\* a question that is empty or consists of whitespace only
Blank(question) == \A i \in 1..Len(question) : question[i] = " "

\* C6: submitting an empty or whitespace-only question while no image is
\* attached changes neither the conversation nor the generating flag nor the
\* AI error channel, and issues no answer call.
C6_BlankQuestionRejected ==
    [][\A question \in Questions :
          (Blank(question) /\ image = Null /\ handleQuestionSubmit(question)) =>
             UNCHANGED <<conversation, isGenerating, apiError, pendingAnswers>>]_vars

\* C6 witness: a whitespace-only or empty question was just turned down, with
\* no image attached, on a conversation that holds a turn.
C6_BlankQuestionTurnedDown ==
    /\ earlyReturn = "handleQuestionSubmit"
    /\ image = Null
    /\ conversation # <<>>

\* C7: an accepted Ask (one more answer call in flight) sets the generating
\* flag, and the flag is false right after the step that handles the
\* completion of an answer call (one call fewer in flight), resolved or
\* rejected.
C7_GeneratingClearedOnCompletion ==
    [][/\ BagCardinality(pendingAnswers') > BagCardinality(pendingAnswers)
            => isGenerating'
       /\ BagCardinality(pendingAnswers') < BagCardinality(pendingAnswers)
            => ~isGenerating']_vars

\* C7 witness: an answer call has failed without a message and the flag is
\* down.
C7_FailedAskHandled ==
    /\ apiError = AnswerFallback
    /\ ~isGenerating
    /\ pendingAnswers = EmptyBag
    /\ conversation # <<>>

\* C8 (as stated): when a quiz call resolves the quiz is the list it returned;
\* when it rejects the AI error channel is non-empty and the quiz is null; in
\* both cases the quiz-generating flag is false.
C8_QuizCompletion ==
    [][\A call \in BagToSet(pendingQuizzes) :
          /\ \A questions \in QuizLists :
                generateQuizResolve(call, questions) =>
                   quiz' = Some(questions) /\ ~isGeneratingQuiz'
          /\ \A message \in FailureMessages :
                generateQuizReject(call, message) =>
                   apiError' # "" /\ quiz' = Null /\ ~isGeneratingQuiz']_vars

\* C9: Generate Quiz with no processed document changes neither the quiz nor
\* the busy flags nor the AI error channel, and issues no quiz call.
C9_QuizWithoutDocsIsNoOp ==
    [][(Len(processedDocs) = 0 /\ handleGenerateQuiz) =>
          /\ UNCHANGED <<quiz, isGeneratingQuiz, apiError, pendingQuizzes>>
          /\ isLoading' = isLoading]_vars

\* C9 witness: Generate Quiz was just turned down for lack of documents while
\* a quiz (of a call issued before a clear) is stored.
C9_QuizTurnedDown ==
    /\ earlyReturn = "handleGenerateQuiz"
    /\ processedDocs = <<>>
    /\ quiz # Null

\* a MIME type whose category is not "image"
NotAnImageType(type) == type = <<>> \/ type[1] # "image"

\* C10: selecting a file whose MIME type is not an image type leaves the
\* image as it is, starts no encoding, and sets the AI error channel to a
\* non-empty message.
C10_NonImageRejected ==
    [][\A file \in ImageFiles :
          (NotAnImageType(file.type) /\ handleImageSelect(file)) =>
             /\ image' = image
             /\ pendingImages' = pendingImages
             /\ apiError' = InvalidImageMessage
             /\ apiError' # ""]_vars

\* C10 witness: the invalid-image message is shown while an earlier image is
\* still attached.
C10_RejectedWithImageAttached ==
    /\ apiError = InvalidImageMessage
    /\ image # Null

\* C11: neither the step that issues an Ask (one more answer call in flight)
\* nor the step that handles the completion of an answer call (one fewer),
\* nor an Ask that is turned down, changes the attached image.
C11_AskPreservesImage ==
    [][(\/ BagCardinality(pendingAnswers') # BagCardinality(pendingAnswers)
        \/ earlyReturn' = "handleQuestionSubmit")
          => image' = image]_vars

\* C11 witness: an Ask with a blank question, accepted only because an image
\* was attached, has been answered and the image is still attached.
C11_ImageKeptAfterAnswer ==
    /\ Len(conversation) = 2
    /\ conversation[1] \in { UserTurn(question) : question \in { q \in Questions : Blank(q) } }
    /\ conversation[2].role = "model"
    /\ image # Null
    /\ pendingAnswers = EmptyBag

\* every field handleClearSession writes has the value it writes
EmptySession ==
    /\ SessionCleared
    /\ ~isQuizModalOpen

\* C12: Clear Session is idempotent: it always ends in the empty session, and
\* applied to a session that is already empty it changes nothing, so clearing
\* twice leaves the state clearing once leaves.
C12_ClearIsIdempotent ==
    [][/\ handleClearSession => EmptySession'
       /\ (EmptySession /\ handleClearSession) => UNCHANGED <<appVars, pendingVars>>]_vars

\* C12 witness: an empty session with a quiz call still in flight and no
\* upload under way; a quiz call needs documents, so they were cleared since.
C12_ClearedWhileQuizInFlight ==
    /\ EmptySession
    /\ isGeneratingQuiz
    /\ pendingQuizzes # EmptyBag
    /\ pendingPdfs = EmptyBag
    /\ ~isPdfProcessing

\* C13: in a cleared session with no upload and no image encoding under way,
\* every call still in flight was issued before the clear; the step that
\* handles the completion of such an answer or quiz call leaves the
\* conversation empty, the image and the quiz null and the AI error empty.
C13_ClearedSessionStaysCleared ==
    [][(/\ SessionCleared
        /\ pendingImages = EmptyBag
        /\ pendingPdfs = EmptyBag
        /\ \/ BagCardinality(pendingAnswers') < BagCardinality(pendingAnswers)
           \/ BagCardinality(pendingQuizzes') < BagCardinality(pendingQuizzes))
          => /\ conversation' = <<>>
             /\ image' = Null
             /\ quiz' = Null
             /\ apiError' = ""]_vars

\* the number of turns with the given role among the first n turns
CountRole(turns, role, n) ==
    Cardinality({ i \in 1..n : turns[i].role = role })

\* C14: in every prefix of the conversation the number of model turns does
\* not exceed the number of user turns.
C14_ModelTurnsAnswerUserTurns ==
    \A n \in 0..Len(conversation) :
        CountRole(conversation, "model", n) <= CountRole(conversation, "user", n)

\* C15: whenever the quiz-generating flag is true the stored quiz is null.
C15_NoQuizWhileGenerating == isGeneratingQuiz => quiz = Null

\* C15 witness: the quiz view is open, so a quiz had been stored, and two
\* quiz calls issued since then overlap.
C15_RegeneratingWithOverlap ==
    /\ isGeneratingQuiz
    /\ isQuizModalOpen
    /\ BagCardinality(pendingQuizzes) = 2

\* a file list that is null or holds no file
NoFiles(files) == IF files = Null THEN TRUE ELSE files[1] = <<>>

\* C16: an upload of a non-empty batch leaves the documents, conversation,
\* image, quiz and both errors cleared and the batch being processed, one more
\* batch in flight than before; an upload of a null or empty file list
\* changes no state and starts no processing.
C16_UploadClearsThenProcesses ==
    [][\A files \in FileLists :
          handleFileChange(files) =>
              IF NoFiles(files)
              THEN UNCHANGED <<appVars, pendingVars>>
              ELSE /\ SessionCleared'
                   /\ isPdfProcessing'
                   /\ pendingPdfs' = Issue(pendingPdfs, [remaining |-> files[1]])
                   /\ UNCHANGED <<isGenerating, isGeneratingQuiz, pendingAnswers,
                                  pendingQuizzes, pendingImages>>]_vars

\* C16 witness: a batch was uploaded while an answer call was in flight, the
\* session is cleared and the batch is processing, and an upload without
\* files has just been turned down.
C16_UploadedThenEmptyUpload ==
    /\ earlyReturn = "handleFileChange"
    /\ SessionCleared
    /\ isPdfProcessing
    /\ pendingPdfs # EmptyBag
    /\ pendingAnswers # EmptyBag

\* a step that issues an answer, quiz or image-encoding call
IssuesCall ==
    \/ BagCardinality(pendingAnswers') > BagCardinality(pendingAnswers)
    \/ BagCardinality(pendingQuizzes') > BagCardinality(pendingQuizzes)
    \/ BagCardinality(pendingImages') > BagCardinality(pendingImages)

\* a step that handles the successful completion of such a call
CompletesSuccessfully ==
    \/ \E call \in BagToSet(pendingAnswers), answer \in Answers :
          getAnswerResolve(call, answer)
    \/ \E call \in BagToSet(pendingQuizzes), questions \in QuizLists :
          generateQuizResolve(call, questions)
    \/ \E call \in BagToSet(pendingImages) : fileToBase64Resolve(call)

\* a step that handles the failure of such a call, or turns a selected file down
Fails ==
    \/ \E call \in BagToSet(pendingAnswers), message \in FailureMessages :
          getAnswerReject(call, message)
    \/ \E call \in BagToSet(pendingQuizzes), message \in FailureMessages :
          generateQuizReject(call, message)
    \/ \E call \in BagToSet(pendingImages) : fileToBase64Reject(call)
    \/ \E file \in ImageFiles : NotAnImageType(file.type) /\ handleImageSelect(file)

\* C17 as stated: when an answer, quiz or image-encoding call completes
\* successfully and no call is in flight afterwards, the AI error is empty.
C17_ErrorEmptyAfterSuccess ==
    [][(CompletesSuccessfully /\ InFlight' = 0) => apiError' = ""]_vars

\* C17 amended: a step that issues a call resets the AI error to empty; a
\* successful completion leaves the AI error as it was; the AI error takes a
\* new non-empty value only in a step that handles a failed call or turns a
\* selected file down.
C17_ErrorResetAtIssueKeptBySuccess ==
    [][/\ IssuesCall => apiError' = ""
       /\ CompletesSuccessfully => apiError' = apiError
       /\ (apiError' # apiError /\ apiError' # "") => Fails]_vars

\* C17 witness: an Ask has failed (its user turn stands alone, no answer call
\* is left), a quiz was generated successfully, nothing is in flight and the
\* AI error is empty.
C17_SuccessAfterFailure ==
    /\ Len(conversation) = 1
    /\ conversation[1].role = "user"
    /\ quiz # Null
    /\ InFlight = 0
    /\ apiError = ""
====
